---- MODULE Spec2Model ----
(***************************************************************************)
(* ts-dns inbound package: the query dispatcher (Handler.ServeDNS), the    *)
(* single-flight coordinator (CondMap / reqCond), group dispatch           *)
(* (Group.CallDNS), snapshot refresh (Handler.Refresh), the IPv6 policy    *)
(* poller (Group.PollIPv6) and the fastest-IPv4 selector (fastestA).       *)
(***************************************************************************)
EXTENDS Integers, Sequences, FiniteSets, TLC

(***************************************************************************)
(* Bounds of the model.                                                    *)
(***************************************************************************)
\* number of concurrent ServeDNS goroutines (one request each)
NumReq == 2
\* largest chLen (number of callers of a FastestV4 group) handed to fastestA
MaxChLen == 2

(***************************************************************************)
(* Program constants.                                                      *)
(***************************************************************************)
\* const maxRtt = 500 (milliseconds)
maxRtt == 500
Procs == 1..NumReq

(***************************************************************************)
(* DNS messages.  A *dns.Msg is a record; the nil pointer is NilMsg.       *)
(* Answer is the sequence of resource records, each [t, ip].               *)
(***************************************************************************)
RR(t, ip) == [t |-> t, ip |-> ip]
Msg(ans) == [isNil |-> FALSE, Answer |-> ans]
NilMsg == [isNil |-> TRUE, Answer |-> << >>]
\* &dns.Msg{} : a message with no answers
EmptyMsg == Msg(<< >>)

\* addresses used by the upstreams of the model
CN4 == "101.32.1.1"
FOR4 == "8.8.8.8"
CN6 == "2400:da00::1"
\* what net.IP(nil) of new(dns.AAAA) is sent as
ZeroV6 == "::"

\* common.ExtractA / common.ExtractAAAA: the A (AAAA) records of r, in order;
\* empty for a nil message
ExtractA(m) == IF m.isNil THEN << >> ELSE SelectSeq(m.Answer, LAMBDA x : x.t = "A")
ExtractAAAA(m) == IF m.isNil THEN << >> ELSE SelectSeq(m.Answer, LAMBDA x : x.t = "AAAA")

\* common.RemoveA: r without its A records
RemoveA(m) == Msg(SelectSeq(m.Answer, LAMBDA x : x.t # "A"))

(***************************************************************************)
(* cache.RamSet: exact IPs and CIDR blocks (a block is the set of the      *)
(* addresses it covers).                                                   *)
(***************************************************************************)
RamSets ==
  [ cnip   |-> [ipMap |-> {}, subnet |-> {{CN4}}],
    cnipv6 |-> [ipMap |-> {CN6}, subnet |-> {}],
    cnipv6b |-> [ipMap |-> {}, subnet |-> {{CN6}}] ]

\* RamSet.Contain
Contain(s, target) ==
  \/ target \in RamSets[s].ipMap
  \/ \E subnet \in RamSets[s].subnet : target \in subnet

\* allInRange(r, ipRange): the A records and the AAAA records of r are all
\* tested against the one set ipRange
allInRange(m, ipRange) ==
  /\ \A i \in DOMAIN ExtractA(m) : Contain(ipRange, ExtractA(m)[i].ip)
  /\ \A i \in DOMAIN ExtractAAAA(m) : Contain(ipRange, ExtractAAAA(m)[i].ip)

(***************************************************************************)
(* Requests.  A request carries one question (Name, Qtype) and no ECS      *)
(* option.                                                                 *)
(***************************************************************************)
Req(name, qtype) == [Name |-> name, Qtype |-> qtype]

Requests ==
  { Req("n.", "A"), Req("N.", "AAAA"), Req("n.", "TXT"),
    Req("d.", "A"), Req("w.", "A"), Req("x.", "A") }

\* strings.ToLower on the names of the model
ToLower(s) == IF s = "N." THEN "n." ELSE s

\* strconv.FormatInt(int64(question.Qtype), 10): dns.TypeA = 1,
\* dns.TypeAAAA = 28, dns.TypeTXT = 16
FormatQtype(t) == CASE t = "A" -> "1" [] t = "AAAA" -> "28" [] t = "TXT" -> "16"

\* common.FormatECS(request): the requests of the model carry no subnet
FormatECS(q) == ""

\* CondMap.getCacheKey: lower(Name + Qtype [+ "." + subnet])
getCacheKey(q) ==
  LET key == q.Name \o FormatQtype(q.Qtype)
      subnet == FormatECS(q)
  IN  IF subnet # "" THEN ToLower(key) \o "." \o subnet ELSE ToLower(key)

Keys == {getCacheKey(q) : q \in Requests}

(***************************************************************************)
(* Groups.  A *Group is an object; "nil" is the nil pointer.  Matcher is   *)
(* the set of names the group's rules match.  Callers is the number of     *)
(* upstream callers.                                                       *)
(***************************************************************************)
GroupObj(name, callers, matcher, conc, ipset, test) ==
  [ Name |-> name, Callers |-> callers, Matcher |-> matcher,
    Concurrent |-> conc, FastestV4 |-> FALSE, IPSet |-> ipset,
    TestIPv6 |-> test ]

GroupObjs ==
  [ clean  |-> GroupObj("clean", 1, {}, FALSE, "nil", {}),
    dirty  |-> GroupObj("dirty", 2, {"d."}, TRUE, "gfwset", {"ipv6.test"}),
    work   |-> GroupObj("work", 1, {"w.", "x."}, FALSE, "workset", {}),
    drop   |-> GroupObj("drop", 0, {"x."}, FALSE, "nil", {}),
    clean2 |-> GroupObj("clean", 1, {}, FALSE, "cnset", {}),
    dirty2 |-> GroupObj("dirty", 1, {"d."}, FALSE, "nil", {}) ]

GroupIds == DOMAIN GroupObjs
GroupNames == {"clean", "dirty", "work", "drop"}

\* the map[string]*Group objects a Handler may point to: name -> *Group
GroupMaps ==
  [ full   |-> [clean |-> "clean", dirty |-> "dirty", work |-> "work", drop |-> "drop"],
    nodrop |-> [clean |-> "clean2", dirty |-> "dirty2", work |-> "nil", drop |-> "nil"] ]

\* handler.Groups[name]
GroupOf(h, name) == GroupMaps[h.Groups][name]

\* Matcher.Match(question.Name): (match, ok)
Match(g, name) == name \in GroupObjs[g].Matcher

(***************************************************************************)
(* hosts.Reader lists: Record(hostname, ipv6) is an address or "".         *)
(***************************************************************************)
HostsLists ==
  [ hosts0 |-> << >>,
    hosts1 |-> << [name |-> "n", v6 |-> FALSE, ip |-> "10.0.0.1"] >> ]

Record(reader, hostname, ipv6) ==
  IF reader.name = hostname /\ reader.v6 = ipv6 THEN reader.ip ELSE ""

\* hostname[:len(hostname)-1]
TrimLast(name) ==
  CASE name = "n." -> "n" [] name = "N." -> "N" [] name = "d." -> "d"
    [] name = "w." -> "w" [] name = "x." -> "x"

\* Handler.HitHosts
HitHosts(h, q) ==
  IF q.Qtype \in {"A", "AAAA"}
  THEN LET ipv6 == q.Qtype = "AAAA"
           readers == HostsLists[h.HostsReaders]
           rec(i) == IF Record(readers[i], q.Name, ipv6) # ""
                     THEN Record(readers[i], q.Name, ipv6)
                     ELSE Record(readers[i], TrimLast(q.Name), ipv6)
           hits == {i \in DOMAIN readers : rec(i) # ""}
       IN  IF hits = {} THEN NilMsg
           ELSE LET i == CHOOSE i \in hits : \A j \in hits : i <= j
                IN  Msg(<< RR(q.Qtype, rec(i)) >>)
  ELSE NilMsg

(***************************************************************************)
(* Handler snapshots.  Pointer-valued fields hold a name or "nil"; Cache   *)
(* holds a cache number or 0 for nil.                                      *)
(***************************************************************************)
Handler0 ==
  [ Listen |-> ":53", DisableIPv6 |-> FALSE, Cache |-> 1, GFWMatcher |-> "gfw1",
    CNIP |-> "cnip", CNIPv6 |-> "cnipv6", HostsReaders |-> "hosts0",
    Groups |-> "full", QueryLogger |-> "log1", DisableQTypes |-> {"TXT"} ]

\* the targets handed to Refresh
Targets ==
  { [ Listen |-> ":5353", DisableIPv6 |-> TRUE, Cache |-> 2, GFWMatcher |-> "nil",
      CNIP |-> "nil", CNIPv6 |-> "cnipv6b", HostsReaders |-> "hosts1",
      Groups |-> "nodrop", QueryLogger |-> "log2", DisableQTypes |-> {"AAAA"} ] }

CacheIds == {1, 2}

\* Handler.IsValid
IsValid(h) ==
  /\ h.Groups # "nil"
  /\ LET clean == GroupOf(h, "clean")
         dirty == GroupOf(h, "dirty")
     IN  ~ ( clean = "nil" \/ GroupObjs[clean].Callers <= 0
             \/ dirty = "nil" \/ GroupObjs[dirty].Callers <= 0 )

(***************************************************************************)
(* fastestA(ch, chLen, tcpPort).  ch is the sequence of the items in the   *)
(* order they are received, rtt[ip] what pingRtt(ip, tcpPort) returns,     *)
(* order the order in which the range over rttMap meets the addresses.     *)
(***************************************************************************)
\* math.MaxInt64, as far as TLC's integers go: above every rtt of the model
MaxInt64 == 2147483647

\* res after the receive loop: the last non-nil item
RECURSIVE LastNonNil(_)
LastNonNil(items) ==
  IF items = << >> THEN NilMsg
  ELSE IF ~ items[Len(items)].isNil THEN items[Len(items)]
  ELSE LastNonNil(SubSeq(items, 1, Len(items) - 1))

\* the keys of aMap and of rttMap after wg.Wait(): every distinct address of
\* an A record of a received item
Candidates(items) ==
  UNION { {ExtractA(items[i])[j].ip : j \in DOMAIN ExtractA(items[i])} :
          i \in DOMAIN items }

\* a variant of the test without the cap maxRtt: what C7 rules out
FasterNoCap(rtt, lowestRtt) == rtt < lowestRtt

\* the test of the selection loop
Faster(rtt, lowestRtt) == rtt < maxRtt /\ rtt < lowestRtt

\* the selection loop over rttMap: (lowestRtt, fastestIP) after the
\* addresses order[1..n] have been met
RECURSIVE Lowest(_, _, _, _)
Lowest(order, n, keys, rtt) ==
  IF n = 0 THEN << MaxInt64, "" >>
  ELSE LET prev == Lowest(order, n - 1, keys, rtt)
           ipv4 == order[n]
       IN  IF ipv4 \in keys /\ Faster(rtt[ipv4], prev[1])
           THEN << rtt[ipv4], ipv4 >>
           ELSE prev

fastestA(ch, chLen, rtt, order) ==
  LET items == SubSeq(ch, 1, chLen)
      res == LastNonNil(items)
      fastestIP == Lowest(order, Len(order), Candidates(items), rtt)[2]
  IN  IF fastestIP # "" /\ ~ res.isNil
      THEN Msg(Append(RemoveA(res).Answer, RR("A", fastestIP)))
      ELSE res

(***************************************************************************)
(* Upstream callers and group dispatch.                                    *)
(***************************************************************************)
\* what one outbound.Caller.Call may return: nil (failure) or a message
Outcomes ==
  { NilMsg,
    Msg(<< RR("A", CN4) >>),
    Msg(<< RR("A", CN4), RR("AAAA", CN6) >>),
    Msg(<< RR("A", FOR4) >>) }

\* the first non-nil item of the sequence items, NilMsg when there is none
RECURSIVE FirstNonNil(_)
FirstNonNil(items) ==
  IF items = << >> THEN NilMsg
  ELSE IF ~ Head(items).isNil THEN Head(items)
  ELSE FirstNonNil(Tail(items))

\* the permutations of 1..n, as sequences
Perms(n) == {f \in [1..n -> 1..n] : \A i, j \in 1..n : f[i] = f[j] => i = j}

\* Group.callDNS for a group that is not FastestV4: out[i] is what caller i
\* returns, arrival the order in which concurrent callers send to the channel
callDNS(g, out, arrival) ==
  IF GroupObjs[g].Callers = 0 THEN NilMsg
  ELSE IF GroupObjs[g].Concurrent
       THEN FirstNonNil([i \in 1..GroupObjs[g].Callers |-> out[arrival[i]]])
       ELSE FirstNonNil(out)

\* the loop of Group.CallDNS over records.Answer: every AAAA record is
\* replaced by new(dns.AAAA)
ZeroAAAA(m) ==
  Msg([i \in DOMAIN m.Answer |->
         IF m.Answer[i].t = "AAAA" THEN RR("AAAA", ZeroV6) ELSE m.Answer[i]])

\* a variant of Group.CallDNS without the suppression: what C8 rules out
CallDNSKeepsAAAA(records, disableIPv6) == records

\* Group.CallDNS: callDNS, then the IPv6 suppression under the flag read
\* after callDNS has returned
CallDNS(records, disableIPv6) ==
  IF disableIPv6 /\ ~ records.isNil THEN ZeroAAAA(records) ELSE records

(***************************************************************************)
(* State.                                                                  *)
(***************************************************************************)
VARIABLES
  handler,          \* the Handler's fields
  muxReaders,       \* goroutines holding handler.Mux.RLock
  muxWriter,        \* Refresh's position: "none", or "pending" inside Mux.Lock
  groupDisableIPv6, \* Group.DisableIPv6 of every group object
  cache,            \* contents of the DNS caches: cache -> key -> message
  condMap,          \* the global condMap: key -> reqCond (0: absent)
  condReady,        \* reqCond.ready
  condLocked,       \* holder of reqCond.cond.L (0: unlocked)
  pc,               \* position of every ServeDNS goroutine
  request,          \* its request
  reqCond,          \* its local reqCond
  r,                \* its local r
  group,            \* its local group
  stage,            \* which CallDNS of ServeDNS is in flight
  panicking,        \* a run-time panic is unwinding the goroutine
  reply,            \* what resp.WriteMsg was given
  trace,            \* history: what the goroutine did, in order
  snap,             \* history: the Handler fields when it took the read lock
  fState,           \* fastestA: "off", "called" or "returned"
  fCh,              \* fastestA: the items of ch, in the order received
  fRtt,             \* fastestA: what pingRtt returns for every address
  fOrder,           \* fastestA: the order of the range over rttMap
  fRes,             \* fastestA: the message returned
  cState,           \* callDNS: position of the calling goroutine
  cGroup,           \* callDNS: the group's Callers, Concurrent, FastestV4
  cRequest,         \* callDNS: "nil" or the request
  cOut,             \* callDNS: what caller.Call returns, for every caller
  cNext,            \* callDNS: index of the range over group.Callers
  cTask,            \* callDNS: every call(caller, request): "none",
                    \*   "running" (before ch <- r) or "sent"
  cInvoked,         \* callDNS history: the callers invoked, in order
  ch,               \* callDNS: the items buffered in the channel ch
  cGot,             \* callDNS history: the items received from ch, in order
  cRes,             \* callDNS: the message returned
  pState,           \* PollIPv6: position of the poller
  pTestIPv6,        \* PollIPv6: group.TestIPv6, the probe hostnames
  pDisableIPv6,     \* PollIPv6: group.DisableIPv6 of the polled group
  pCount,           \* PollIPv6: count
  pCache,           \* PollIPv6: cache, NilMsg where a hostname has no entry
  pSleepTime,       \* PollIPv6: sleepTime, in seconds
  pLog              \* PollIPv6 history: what the last cycle read and did

fastVars == << fState, fCh, fRtt, fOrder, fRes >>

callVars ==
  << cState, cGroup, cRequest, cOut, cNext, cTask, cInvoked, ch, cGot, cRes >>

pollVars ==
  << pState, pTestIPv6, pDisableIPv6, pCount, pCache, pSleepTime, pLog >>

\* what the dispatcher's steps leave alone
auxVars == << fastVars, callVars, pollVars >>

dispVars ==
  << handler, muxReaders, muxWriter, groupDisableIPv6, cache,
     condMap, condReady, condLocked, pc, request, reqCond, r, group, stage,
     panicking, reply, trace, snap >>

vars == << dispVars, fastVars, callVars, pollVars >>

sharedVars ==
  << handler, muxReaders, muxWriter, groupDisableIPv6, cache,
     condMap, condReady, condLocked >>

\* history entries: what was done (op), the group or IPSet concerned (g) and
\* the message concerned (m); for a CallDNS also what callDNS returned (raw)
\* and the DisableIPv6 flag CallDNS read (flag)
Ev(op, g, m) == [op |-> op, g |-> g, m |-> m, raw |-> NilMsg, flag |-> FALSE]
CallEv(g, raw, flag, m) == [op |-> "call", g |-> g, m |-> m, raw |-> raw, flag |-> flag]

DispInit ==
  /\ handler = Handler0
  /\ muxReaders = {}
  /\ muxWriter = "none"
  /\ groupDisableIPv6 = [g \in GroupIds |-> FALSE]
  /\ cache = [c \in CacheIds |-> [k \in Keys |-> NilMsg]]
  /\ condMap = [k \in Keys |-> 0]
  /\ condReady = [c \in Procs |-> TRUE]
  /\ condLocked = [c \in Procs |-> 0]
  /\ pc = [p \in Procs |-> "idle"]
  /\ request = [p \in Procs |-> Req("n.", "A")]
  /\ reqCond = [p \in Procs |-> 0]
  /\ r = [p \in Procs |-> NilMsg]
  /\ group = [p \in Procs |-> "nil"]
  /\ stage = [p \in Procs |-> "none"]
  /\ panicking = [p \in Procs |-> FALSE]
  /\ reply = [p \in Procs |-> NilMsg]
  /\ trace = [p \in Procs |-> << >>]
  /\ snap = [p \in Procs |-> Handler0]

\* addresses, round-trip times and items of the fastestA runs
FastIPs == {"1.1.1.1", "8.8.8.8", "2.2.2.2"}
RttVals == {20, 80, maxRtt, maxRtt + 1}
FastItems ==
  { NilMsg, EmptyMsg,
    Msg(<< RR("A", "1.1.1.1") >>),
    Msg(<< RR("A", "8.8.8.8"), RR("AAAA", CN6), RR("A", "2.2.2.2") >>),
    Msg(<< RR("A", "1.1.1.1"), RR("A", "8.8.8.8") >>) }
FastOrders ==
  { o \in [1..3 -> FastIPs] : \A i, j \in 1..3 : o[i] = o[j] => i = j }

FastOff ==
  /\ fState = "off"
  /\ fCh = << >>
  /\ fRtt = [ip \in FastIPs |-> maxRtt + 1]
  /\ fOrder = << >>
  /\ fRes = NilMsg

\* no callDNS of its own is running
CallOff ==
  /\ cState = "off"
  /\ cGroup = [Callers |-> 0, Concurrent |-> FALSE, FastestV4 |-> FALSE]
  /\ cRequest = "nil"
  /\ cOut = << >>
  /\ cNext = 0
  /\ cTask = << >>
  /\ cInvoked = << >>
  /\ ch = << >>
  /\ cGot = << >>
  /\ cRes = NilMsg

\* the probe hostnames of the model
Domains == {"v6.example.com", "v6.example.org"}

\* no poller of its own is running
PollOff ==
  /\ pState = "off"
  /\ pTestIPv6 = << >>
  /\ pDisableIPv6 = FALSE
  /\ pCount = 0
  /\ pCache = [d \in Domains |-> NilMsg]
  /\ pSleepTime = 0
  /\ pLog = << >>

Init == DispInit /\ FastOff /\ CallOff /\ PollOff

(***************************************************************************)
(* The DNS cache (cache.DNSCache).                                         *)
(***************************************************************************)
\* DNSCache.Get(request)
CacheGet(c, q) == cache[c][getCacheKey(q)]

\* DNSCache.Set(request, r): a nil r stores nothing
CacheSet(c, q, m) ==
  IF m.isNil THEN cache
  ELSE [cache EXCEPT ![c][getCacheKey(q)] = m]

\* an entry outlives its TTL
Expire(k) ==
  /\ ~ cache[handler.Cache][k].isNil
  /\ UNCHANGED auxVars
  /\ cache' = [cache EXCEPT ![handler.Cache][k] = NilMsg]
  /\ UNCHANGED << handler, muxReaders, muxWriter,
                  groupDisableIPv6, condMap, condReady, condLocked,
                  pc, request, reqCond, r, group, stage, panicking, reply,
                  trace, snap >>

(***************************************************************************)
(* Handler.ServeDNS, one action per step between two accesses to shared    *)
(* state.                                                                  *)
(***************************************************************************)
\* CondMap.get, first half: the lookup under mu.RLock (0: not found)
CondMapGet(q) == condMap[getCacheKey(q)]

\* handler.Mux.RLock(), the type filters, the hosts lookup and the first
\* half of condMap.get
ServeStart(p, q) ==
  /\ pc[p] = "idle"
  /\ UNCHANGED auxVars
  /\ muxWriter = "none"
  /\ muxReaders' = muxReaders \cup {p}
  /\ request' = [request EXCEPT ![p] = q]
  /\ snap' = [snap EXCEPT ![p] = handler]
  /\ IF handler.DisableIPv6 /\ q.Qtype = "AAAA"
     THEN /\ r' = [r EXCEPT ![p] = EmptyMsg]
          /\ pc' = [pc EXCEPT ![p] = "reply"]
          /\ trace' = [trace EXCEPT ![p] = << Ev("filter", "nil", EmptyMsg) >>]
          /\ UNCHANGED reqCond
     ELSE IF q.Qtype \in handler.DisableQTypes
     THEN /\ r' = [r EXCEPT ![p] = EmptyMsg]
          /\ pc' = [pc EXCEPT ![p] = "reply"]
          /\ trace' = [trace EXCEPT ![p] = << Ev("filter", "nil", EmptyMsg) >>]
          /\ UNCHANGED reqCond
     ELSE IF ~ HitHosts(handler, q).isNil
     THEN /\ r' = [r EXCEPT ![p] = HitHosts(handler, q)]
          /\ pc' = [pc EXCEPT ![p] = "reply"]
          /\ trace' = [trace EXCEPT ![p] = << Ev("hosts", "nil", HitHosts(handler, q)) >>]
          /\ UNCHANGED reqCond
     ELSE /\ r' = [r EXCEPT ![p] = NilMsg]
          /\ reqCond' = [reqCond EXCEPT ![p] = CondMapGet(q)]
          /\ pc' = [pc EXCEPT ![p] = IF CondMapGet(q) # 0 THEN "barrier" ELSE "insert"]
          /\ UNCHANGED trace
  /\ UNCHANGED << handler, muxWriter, groupDisableIPv6,
                  cache, condMap, condReady, condLocked, group, stage,
                  panicking, reply >>

\* CondMap.get, second half: newReqCond() and the store under mu.Lock
CondMapInsert(p) ==
  /\ pc[p] = "insert"
  /\ UNCHANGED auxVars
  /\ condMap' = [condMap EXCEPT ![getCacheKey(request[p])] = p]
  /\ reqCond' = [reqCond EXCEPT ![p] = p]
  /\ pc' = [pc EXCEPT ![p] = "barrier"]
  /\ UNCHANGED << handler, muxReaders, muxWriter,
                  groupDisableIPv6, cache, condReady, condLocked,
                  request, r, group, stage, panicking, reply, trace, snap >>

\* the first wait: L.Lock(); for !ready { Wait() }; L.Unlock()
Barrier(p) ==
  /\ pc[p] = "barrier"
  /\ UNCHANGED auxVars
  /\ condLocked[reqCond[p]] = 0
  /\ pc' = [pc EXCEPT ![p] = IF condReady[reqCond[p]] THEN "lookup" ELSE "blocked1"]
  /\ UNCHANGED << sharedVars, request, reqCond, r, group, stage, panicking,
                  reply, trace, snap >>

\* a variant of the first lookup that goes on as after a miss whatever
\* Cache.Get returned: what C3 rules out
CacheLookupMiss(p) ==
  /\ pc[p] = "lookup"
  /\ UNCHANGED auxVars
  /\ r' = [r EXCEPT ![p] = NilMsg]
  /\ pc' = [pc EXCEPT ![p] = "acquire"]
  /\ trace' = [trace EXCEPT ![p] =
       Append(@, Ev("get", "nil", cache[handler.Cache][getCacheKey(request[p])]))]
  /\ UNCHANGED << sharedVars, request, reqCond, group, stage, panicking,
                  reply, snap >>

\* the first handler.Cache.Get
CacheLookup(p) ==
  /\ pc[p] = "lookup"
  /\ UNCHANGED auxVars
  /\ LET hit == CacheGet(handler.Cache, request[p])
     IN  /\ r' = [r EXCEPT ![p] = hit]
         /\ pc' = [pc EXCEPT ![p] = IF hit.isNil THEN "acquire" ELSE "reply"]
         /\ trace' = [trace EXCEPT ![p] =
              Append(@, Ev("get", "nil", cache[handler.Cache][getCacheKey(request[p])]))]
  /\ UNCHANGED << sharedVars, request, reqCond, group, stage, panicking,
                  reply, snap >>

\* the second wait: L.Lock(); for !ready { Wait() }; ready = false
AcquireSlot(p) ==
  /\ pc[p] = "acquire"
  /\ UNCHANGED auxVars
  /\ condLocked[reqCond[p]] = 0
  /\ IF condReady[reqCond[p]]
     THEN /\ condLocked' = [condLocked EXCEPT ![reqCond[p]] = p]
          /\ condReady' = [condReady EXCEPT ![reqCond[p]] = FALSE]
          /\ pc' = [pc EXCEPT ![p] = "recheck"]
     ELSE /\ pc' = [pc EXCEPT ![p] = "blocked2"]
          /\ UNCHANGED << condLocked, condReady >>
  /\ UNCHANGED << handler, muxReaders, muxWriter,
                  groupDisableIPv6, cache, condMap, request, reqCond,
                  r, group, stage, panicking, reply, trace, snap >>

\* the goroutines blocked in cond.Wait() on reqCond c
Waiters(c) == {w \in Procs : reqCond[w] = c /\ pc[w] \in {"blocked1", "blocked2"}}

\* what a woken waiter does next: re-acquire L and test ready again
Woken(w) == IF pc[w] = "blocked1" THEN "barrier" ELSE "acquire"

\* a variant of the deferred release without L.Unlock(): what C11 rules out
ReleaseSlotKeepsLock(p) ==
  /\ condReady' = [condReady EXCEPT ![reqCond[p]] = TRUE]
  /\ UNCHANGED condLocked
  /\ pc' = [pc EXCEPT ![p] = "reply"]

\* the deferred release, run when ServeDNS returns or panics with the slot
\* held: ready = true; Signal(); L.Unlock().  The goroutine goes on to the
\* deferred reply.
ReleaseSlot(p) ==
  /\ condReady' = [condReady EXCEPT ![reqCond[p]] = TRUE]
  /\ condLocked' = [condLocked EXCEPT ![reqCond[p]] = 0]
  /\ IF Waiters(reqCond[p]) = {}
     THEN pc' = [pc EXCEPT ![p] = "reply"]
     ELSE \E w \in Waiters(reqCond[p]) :
            pc' = [pc EXCEPT ![p] = "reply", ![w] = Woken(w)]

\* the groups of handler.Groups whose matcher matches name; the range over
\* the map meets them in any order
Matching(h, name) ==
  { g \in { GroupOf(h, n) : n \in GroupNames } \ {"nil"} : Match(g, name) }

\* a variant in which the drop rule never applies: what C6 rules out
DropRuleNever(h, name) == FALSE

\* the drop rule: handler.Groups["drop"].Matcher.Match(question.Name)
DropRule(h, name) == Match(GroupOf(h, "drop"), name)

\* a variant of the rule pass that falls back after any nil answer: what the
\* amended C14 rules out
FallsBackAfterAnyNil(name, res) == res.isNil

\* a variant of the rule pass without the fallback: what C5 rules out
FallsBackNever(name, res) == FALSE

\* the rule pass: a nil answer of the group named dirty is followed by a call
\* of clean and no cache write
FallsBackToClean(name, res) == name = "dirty" /\ res.isNil

\* a variant that takes dirty's result whatever it is: what C13 rules out
UsingCacheAlways(rr) == TRUE

\* the default path: usingCache after the call of dirty returned rr
UsingCache(rr) == ~ rr.isNil

\* the second handler.Cache.Get and, on a miss, the drop rule and the rule
\* pass up to the first CallDNS
CacheRecheck(p) ==
  /\ pc[p] = "recheck"
  /\ UNCHANGED auxVars
  /\ LET hit == CacheGet(handler.Cache, request[p])
         name == request[p].Name
         drop == GroupOf(handler, "drop")
     IN  /\ r' = [r EXCEPT ![p] = hit]
         /\ IF ~ hit.isNil
            THEN /\ ReleaseSlot(p)
                 /\ trace' = [trace EXCEPT ![p] =
                      @ \o << Ev("acquire", "nil", NilMsg), Ev("get", "nil", hit),
                              Ev("release", "nil", NilMsg) >>]
                 /\ UNCHANGED << group, stage, panicking >>
            ELSE IF drop = "nil"
            THEN \* handler.Groups["drop"].Matcher on a nil *Group
                 /\ panicking' = [panicking EXCEPT ![p] = TRUE]
                 /\ ReleaseSlot(p)
                 /\ trace' = [trace EXCEPT ![p] =
                      @ \o << Ev("acquire", "nil", NilMsg), Ev("get", "nil", hit),
                              Ev("panic", "nil", NilMsg),
                              Ev("release", "nil", NilMsg) >>]
                 /\ UNCHANGED << group, stage >>
            ELSE IF DropRule(handler, name)
            THEN /\ ReleaseSlot(p)
                 /\ trace' = [trace EXCEPT ![p] =
                      @ \o << Ev("acquire", "nil", NilMsg), Ev("get", "nil", hit),
                              Ev("drop", "nil", NilMsg),
                              Ev("release", "nil", NilMsg) >>]
                 /\ UNCHANGED << group, stage, panicking >>
            ELSE /\ IF Matching(handler, name) # {}
                    THEN /\ \E g \in Matching(handler, name) :
                               group' = [group EXCEPT ![p] = g]
                         /\ stage' = [stage EXCEPT ![p] = "rule"]
                    ELSE /\ group' = [group EXCEPT ![p] = GroupOf(handler, "clean")]
                         /\ stage' = [stage EXCEPT ![p] = "clean"]
                 /\ pc' = [pc EXCEPT ![p] = "call"]
                 /\ trace' = [trace EXCEPT ![p] =
                      @ \o << Ev("acquire", "nil", NilMsg), Ev("get", "nil", hit) >>]
                 /\ UNCHANGED << panicking, condReady, condLocked >>
  /\ UNCHANGED << handler, muxReaders, muxWriter,
                  groupDisableIPv6, cache, condMap, request, reqCond, reply,
                  snap >>

\* the group whose CallDNS is in flight
Callee(p) ==
  IF stage[p] = "fallback" THEN GroupOf(handler, "clean") ELSE group[p]

\* handler.Cache.Set(request, m)
SetCache(p, m) == cache' = CacheSet(handler.Cache, request[p], m)

\* the range set that allInRange's parameter ipRange receives at the call
\* allInRange(r, handler.CNIP, handler.CNIPv6): the function has a single
\* range parameter
RangeArg(h) == h.CNIP

\* a CallDNS returns, and ServeDNS runs on to its next CallDNS or to its return
CallReturn(p, out, arrival) ==
  /\ pc[p] = "call"
  /\ UNCHANGED auxVars
  /\ LET g == Callee(p)
         raw == callDNS(g, out, arrival)
         res == CallDNS(raw, groupDisableIPv6[g])
         dirty == GroupOf(handler, "dirty")
         call == CallEv(g, raw, groupDisableIPv6[g], res)
         set == Ev("set", "nil", res)
         rel == Ev("release", "nil", NilMsg)
     IN  CASE stage[p] = "rule" ->
                /\ r' = [r EXCEPT ![p] = res]
                /\ IF FallsBackToClean(GroupObjs[g].Name, res)
                   THEN /\ stage' = [stage EXCEPT ![p] = "fallback"]
                        /\ pc' = [pc EXCEPT ![p] = "call"]
                        /\ trace' = [trace EXCEPT ![p] = Append(@, call)]
                        /\ UNCHANGED << cache, condReady, condLocked >>
                   ELSE /\ SetCache(p, res)
                        /\ ReleaseSlot(p)
                        /\ trace' = [trace EXCEPT ![p] = @ \o << call, set, rel >>]
                        /\ UNCHANGED stage
                /\ UNCHANGED group
           [] stage[p] = "fallback" ->
                /\ r' = [r EXCEPT ![p] = res]
                /\ ReleaseSlot(p)
                /\ trace' = [trace EXCEPT ![p] = @ \o << call, rel >>]
                /\ UNCHANGED << cache, stage, group >>
           [] stage[p] = "clean" ->
                /\ r' = [r EXCEPT ![p] = res]
                /\ IF allInRange(res, RangeArg(handler))
                   THEN /\ SetCache(p, res)
                        /\ ReleaseSlot(p)
                        /\ trace' = [trace EXCEPT ![p] = @ \o << call, set, rel >>]
                        /\ UNCHANGED << stage, group >>
                   ELSE /\ group' = [group EXCEPT ![p] = dirty]
                        /\ stage' = [stage EXCEPT ![p] = "dirty"]
                        /\ pc' = [pc EXCEPT ![p] = "call"]
                        /\ trace' = [trace EXCEPT ![p] = Append(@, call)]
                        /\ UNCHANGED << cache, condReady, condLocked >>
           [] stage[p] = "dirty" ->
                /\ IF UsingCache(res)
                   THEN /\ r' = [r EXCEPT ![p] = res]
                        /\ SetCache(p, res)
                        /\ trace' = [trace EXCEPT ![p] = @ \o << call, set, rel >>]
                   ELSE /\ UNCHANGED << r, cache >>
                        /\ trace' = [trace EXCEPT ![p] = @ \o << call, rel >>]
                /\ ReleaseSlot(p)
                /\ UNCHANGED << stage, group >>
  /\ UNCHANGED << handler, muxReaders, muxWriter,
                  groupDisableIPv6, condMap, request, reqCond, panicking,
                  reply, snap >>

\* a variant of Group.AddIPSet that adds the address of every answer: what
\* the amended C20 rules out
AddIPSetEveryAnswer(g, m) ==
  IF GroupObjs[g].IPSet = "nil" \/ m.isNil THEN Ev("ipset", "nil", EmptyMsg)
  ELSE Ev("ipset", GroupObjs[g].IPSet, m)

\* Group.AddIPSet: the group's IPSet and the addresses it is given, those of
\* the A records of m
AddIPSet(g, m) ==
  IF GroupObjs[g].IPSet = "nil" \/ m.isNil THEN Ev("ipset", "nil", EmptyMsg)
  ELSE Ev("ipset", GroupObjs[g].IPSet, Msg(ExtractA(m)))

\* the deferred reply: SetReply, WriteMsg, AddIPSet, Mux.RUnlock
WriteReply(p) ==
  /\ pc[p] = "reply"
  /\ UNCHANGED auxVars
  /\ LET m == IF r[p].isNil THEN EmptyMsg ELSE r[p]
     IN  /\ reply' = [reply EXCEPT ![p] = m]
         /\ r' = [r EXCEPT ![p] = m]
         /\ IF group[p] # "nil"
            THEN trace' = [trace EXCEPT ![p] =
                   @ \o << Ev("reply", "nil", m), AddIPSet(group[p], m),
                           Ev("runlock", "nil", NilMsg) >>]
            ELSE trace' = [trace EXCEPT ![p] =
                   @ \o << Ev("reply", "nil", m), Ev("runlock", "nil", NilMsg) >>]
  /\ muxReaders' = muxReaders \ {p}
  /\ pc' = [pc EXCEPT ![p] = "close"]
  /\ UNCHANGED << handler, muxWriter, groupDisableIPv6, cache,
                  condMap, condReady, condLocked, request, reqCond, group,
                  stage, panicking, snap >>

\* resp.Close() and the end of the goroutine: its locals are gone; a panic
\* that was unwinding it now leaves ServeDNS
ServeEnd(p) ==
  /\ pc[p] = "close"
  /\ UNCHANGED auxVars
  /\ pc' = [pc EXCEPT ![p] = IF panicking[p] THEN "crashed" ELSE "done"]
  /\ request' = [request EXCEPT ![p] = Req("n.", "A")]
  /\ reqCond' = [reqCond EXCEPT ![p] = 0]
  /\ r' = [r EXCEPT ![p] = NilMsg]
  /\ group' = [group EXCEPT ![p] = "nil"]
  /\ stage' = [stage EXCEPT ![p] = "none"]
  /\ panicking' = [panicking EXCEPT ![p] = FALSE]
  /\ reply' = [reply EXCEPT ![p] = NilMsg]
  /\ trace' = [trace EXCEPT ![p] = << >>]
  /\ snap' = [snap EXCEPT ![p] = Handler0]
  /\ UNCHANGED sharedVars

(***************************************************************************)
(* Handler.Refresh.                                                        *)
(***************************************************************************)
\* handler.Mux.Lock() is called: readers arriving from now on wait
RefreshBegin ==
  /\ muxWriter = "none"
  /\ UNCHANGED auxVars
  /\ muxWriter' = "pending"
  /\ UNCHANGED << handler, muxReaders, groupDisableIPv6, cache,
                  condMap, condReady, condLocked, pc, request, reqCond, r,
                  group, stage, panicking, reply, trace, snap >>

\* a variant in which Mux.Lock() waits for nobody: what C10 rules out
LockWaitsForNone == {}

\* the readers Mux.Lock() waits for before it returns
LockWaitsFor == muxReaders

\* the fields Refresh copies from target
Refreshed(h, target) ==
  [ h EXCEPT
      !.Cache = IF target.Cache # 0 THEN target.Cache ELSE @,
      !.GFWMatcher = IF target.GFWMatcher # "nil" THEN target.GFWMatcher ELSE @,
      !.CNIP = IF target.CNIP # "nil" THEN target.CNIP ELSE @,
      !.HostsReaders = IF target.HostsReaders # "nil" THEN target.HostsReaders ELSE @,
      !.Groups = IF target.Groups # "nil" THEN target.Groups ELSE @,
      !.QueryLogger = IF target.QueryLogger # "nil" THEN target.QueryLogger ELSE @,
      !.DisableIPv6 = target.DisableIPv6 ]

\* Mux.Lock() returns once the readers have left; the assignments of
\* Refresh; the deferred Mux.Unlock().  A cache the handler no longer points
\* to is unreachable and its contents are dropped.
RefreshWrite(target) ==
  /\ muxWriter = "pending"
  /\ UNCHANGED auxVars
  /\ LockWaitsFor = {}
  /\ handler' = Refreshed(handler, target)
  /\ cache' = [c \in CacheIds |->
                 IF c = handler'.Cache THEN cache[c] ELSE [k \in Keys |-> NilMsg]]
  /\ muxWriter' = "none"
  /\ UNCHANGED << muxReaders, groupDisableIPv6, condMap, condReady,
                  condLocked, pc, request, reqCond, r, group, stage, panicking,
                  reply, trace, snap >>

(***************************************************************************)
(* Group.PollIPv6, one cycle: probeOK tells whether some HTTP probe of the *)
(* cycle succeeded.                                                        *)
(***************************************************************************)
PollIPv6(g, probeOK) ==
  /\ GroupObjs[g].TestIPv6 # {}
  /\ UNCHANGED auxVars
  /\ LET disableIPv6 == ~ probeOK
         oldDisableIPv6 == groupDisableIPv6[g]
     IN  /\ disableIPv6 # oldDisableIPv6
         /\ groupDisableIPv6' = [groupDisableIPv6 EXCEPT ![g] = disableIPv6]
  /\ UNCHANGED << handler, muxReaders, muxWriter, cache,
                  condMap, condReady, condLocked, pc, request, reqCond, r,
                  group, stage, panicking, reply, trace, snap >>

(***************************************************************************)
(* The dispatcher's specification.                                         *)
(***************************************************************************)
CallerOuts(p) == [1..GroupObjs[Callee(p)].Callers -> Outcomes]

Serve(p) ==
  \/ \E q \in Requests : ServeStart(p, q)
  \/ CondMapInsert(p)
  \/ Barrier(p)
  \/ CacheLookup(p)
  \/ AcquireSlot(p)
  \/ CacheRecheck(p)
  \/ /\ pc[p] = "call"
     /\ \E out \in CallerOuts(p) :
          \E arrival \in Perms(GroupObjs[Callee(p)].Callers) :
            CallReturn(p, out, arrival)
  \/ WriteReply(p)
  \/ ServeEnd(p)

DispNext ==
  \/ \E p \in Procs : Serve(p)
  \/ \E k \in Keys : Expire(k)
  \/ RefreshBegin
  \/ \E target \in Targets : RefreshWrite(target)
  \/ \E g \in GroupIds, probeOK \in BOOLEAN : PollIPv6(g, probeOK)

Next == DispNext

Spec == Init /\ [][Next]_vars

(***************************************************************************)
(* fastestA on its own: every input of the bounds, one call each.          *)
(***************************************************************************)
FastInit ==
  /\ DispInit
  /\ CallOff
  /\ PollOff
  /\ fState = "called"
  /\ \E chLen \in 1..MaxChLen : fCh \in [1..chLen -> FastItems]
  /\ fRtt \in [FastIPs -> RttVals]
  /\ fOrder \in FastOrders
  /\ fRes = NilMsg

FastestAReturn ==
  /\ fState = "called"
  /\ fRes' = fastestA(fCh, Len(fCh), fRtt, fOrder)
  /\ fState' = "returned"
  /\ UNCHANGED << dispVars, callVars, pollVars, fCh, fRtt, fOrder >>

FastNext == FastestAReturn

FastSpec == FastInit /\ [][FastNext]_vars

(***************************************************************************)
(* Group.callDNS step by step: the calling goroutine, the call(caller,     *)
(* request) tasks and the buffered channel ch between them.                *)
(***************************************************************************)
\* the groups callDNS is called on: Callers is len(group.Callers)
CallGroups ==
  [Callers : 0..MaxChLen, Concurrent : BOOLEAN, FastestV4 : BOOLEAN]

\* what pingRtt returns for the addresses of the answers: reached or not
CallRtts == [FastIPs -> {20, maxRtt + 1}]

\* a variant of the channel with one slot less: what C19 rules out
ChCapShort(g) == g.Callers - 1

\* the capacity of ch := make(chan *dns.Msg, len(group.Callers))
ChCap(g) == g.Callers

\* a variant of the sequential test that never returns early: what C15
\* rules out
SeqReturnsNever(res) == FALSE

\* the test r != nil of the sequential branch of the range over Callers
SeqReturns(res) == ~ res.isNil

\* a variant of the receive loop that never returns early: what C16 rules out
ConcReturnsNever(res) == FALSE

\* the test r != nil of the receive loop of a concurrent group
ConcReturns(res) == ~ res.isNil

\* group.Concurrent || group.FastestV4: callers run as goroutines
Spawns(g) == g.Concurrent \/ g.FastestV4

CallInit ==
  /\ DispInit
  /\ FastOff
  /\ PollOff
  /\ cState = "called"
  /\ cGroup \in CallGroups
  /\ cRequest \in {"nil", "request"}
  /\ cOut \in [1..cGroup.Callers -> FastItems]
  /\ cNext = 0
  /\ cTask = [i \in 1..cGroup.Callers |-> "none"]
  /\ cInvoked = << >>
  /\ ch = << >>
  /\ cGot = << >>
  /\ cRes = NilMsg

\* the first test of callDNS, then make(chan) and the start of the range
CallStart ==
  /\ cState = "called"
  /\ IF cGroup.Callers = 0 \/ cRequest = "nil"
     THEN /\ cState' = "returned"
          /\ cRes' = NilMsg
          /\ UNCHANGED cNext
     ELSE /\ cState' = "range"
          /\ cNext' = 1
          /\ UNCHANGED cRes
  /\ UNCHANGED << dispVars, fastVars, pollVars, cGroup, cRequest, cOut, cTask,
                  cInvoked, ch, cGot >>

\* go call(caller, request): the task is started and the range goes on
GoCall ==
  /\ cState = "range"
  /\ cNext <= cGroup.Callers
  /\ Spawns(cGroup)
  /\ cTask' = [cTask EXCEPT ![cNext] = "running"]
  /\ cInvoked' = Append(cInvoked, cNext)
  /\ cNext' = cNext + 1
  /\ UNCHANGED << dispVars, fastVars, pollVars, cState, cGroup, cRequest, cOut, ch,
                  cGot, cRes >>

\* call(caller, request) of the sequential branch is entered
SyncCall ==
  /\ cState = "range"
  /\ cNext <= cGroup.Callers
  /\ ~ Spawns(cGroup)
  /\ cTask[cNext] = "none"
  /\ cTask' = [cTask EXCEPT ![cNext] = "running"]
  /\ cInvoked' = Append(cInvoked, cNext)
  /\ UNCHANGED << dispVars, fastVars, pollVars, cState, cGroup, cRequest, cOut, cNext,
                  ch, cGot, cRes >>

\* ch <- r of the task of caller i: possible while the buffer has room
ChSend(i) ==
  /\ cTask[i] = "running"
  /\ Len(ch) < ChCap(cGroup)
  /\ ch' = Append(ch, cOut[i])
  /\ cTask' = [cTask EXCEPT ![i] = "sent"]
  /\ UNCHANGED << dispVars, fastVars, pollVars, cState, cGroup, cRequest, cOut, cNext,
                  cInvoked, cGot, cRes >>

\* call(caller, request) of the sequential branch has returned r
SyncReturn ==
  /\ cState = "range"
  /\ cNext <= cGroup.Callers
  /\ ~ Spawns(cGroup)
  /\ cTask[cNext] = "sent"
  /\ IF SeqReturns(cOut[cNext])
     THEN /\ cState' = "returned"
          /\ cRes' = cOut[cNext]
          /\ UNCHANGED cNext
     ELSE /\ cNext' = cNext + 1
          /\ UNCHANGED << cState, cRes >>
  /\ UNCHANGED << dispVars, fastVars, pollVars, cGroup, cRequest, cOut, cTask,
                  cInvoked, ch, cGot >>

\* the range over group.Callers is over
RangeEnd ==
  /\ cState = "range"
  /\ cNext > cGroup.Callers
  /\ IF cGroup.Concurrent /\ ~ cGroup.FastestV4
     THEN /\ cState' = "receive"
          /\ UNCHANGED cRes
     ELSE IF cGroup.FastestV4
     THEN /\ cState' = "fastestA"
          /\ UNCHANGED cRes
     ELSE /\ cState' = "returned"
          /\ cRes' = NilMsg
  /\ UNCHANGED << dispVars, fastVars, pollVars, cGroup, cRequest, cOut, cNext, cTask,
                  cInvoked, ch, cGot >>

\* r := <-ch of the receive loop of a concurrent group
ChReceive ==
  /\ cState = "receive"
  /\ ch # << >>
  /\ ch' = Tail(ch)
  /\ cGot' = Append(cGot, Head(ch))
  /\ IF ConcReturns(Head(ch))
     THEN /\ cState' = "returned"
          /\ cRes' = Head(ch)
     ELSE IF Len(cGot') = cGroup.Callers
     THEN /\ cState' = "returned"
          /\ cRes' = NilMsg
     ELSE UNCHANGED << cState, cRes >>
  /\ UNCHANGED << dispVars, fastVars, pollVars, cGroup, cRequest, cOut, cNext, cTask,
                  cInvoked >>

\* msg := <-ch of fastestA(ch, len(group.Callers), group.TCPPingPort); after
\* the last item the addresses are measured and the result is returned
FastestReceive ==
  /\ cState = "fastestA"
  /\ ch # << >>
  /\ ch' = Tail(ch)
  /\ cGot' = Append(cGot, Head(ch))
  /\ IF Len(cGot') = cGroup.Callers
     THEN /\ cState' = "returned"
          /\ \E rtt \in CallRtts, order \in FastOrders :
               cRes' = fastestA(cGot', cGroup.Callers, rtt, order)
     ELSE UNCHANGED << cState, cRes >>
  /\ UNCHANGED << dispVars, fastVars, pollVars, cGroup, cRequest, cOut, cNext, cTask,
                  cInvoked >>

CallNext ==
  \/ CallStart
  \/ GoCall
  \/ SyncCall
  \/ \E i \in DOMAIN cTask : ChSend(i)
  \/ SyncReturn
  \/ RangeEnd
  \/ ChReceive
  \/ FastestReceive

CallSpec == CallInit /\ [][CallNext]_vars

(***************************************************************************)
(* Group.PollIPv6 cycle by cycle: the probe hostnames are resolved or      *)
(* taken from the in-loop cache, their AAAA addresses are probed, the      *)
(* flag of the group is published, and the poller sleeps.                  *)
(***************************************************************************)
\* count = (count + 1) % 10
resolveEvery == 10
\* if sleepTime <= 30*time.Second
sleepCeiling == 30
\* sleepTime += time.Second * 5
sleepStep == 5

\* a second IPv6 address of the probed hosts
CN6b == "2400:da00::2"

\* group.TestIPv6 of the polled group
TestLists ==
  { << >>, << "v6.example.com" >>, << "v6.example.com", "v6.example.org" >> }

\* what callDNS returns for the AAAA question of a probe hostname
PollAnswers ==
  { NilMsg,
    Msg(<< RR("A", CN4) >>),
    Msg(<< RR("AAAA", CN6) >>),
    Msg(<< RR("AAAA", CN6), RR("AAAA", CN6b) >>) }

\* the calls testHttpConn(ip, domain) that may return nil in one cycle
Reaches == SUBSET (Domains \X {CN6, CN6b})

\* a variant of the cache test that resolves in every cycle: what C18 rules
\* out
UseCacheNever(cached, count) == FALSE

\* r, ok := cache[domain]; ok && count != 0
UseCache(cached, count) == ~ cached.isNil /\ count # 0

\* the loop over records.Answer: the calls of testHttpConn it makes, in
\* order, up to and including the first that returns nil
Tried(domain, records, reach) ==
  LET v6 == ExtractAAAA(records)
      ok == {i \in DOMAIN v6 : << domain, v6[i].ip >> \in reach}
      last == IF ok = {} THEN Len(v6)
              ELSE CHOOSE i \in ok : \A j \in ok : i <= j
  IN  [i \in 1..last |->
         [domain |-> domain, ip |-> v6[i].ip, err |-> i \notin ok]]

\* the loop over group.TestIPv6 from the hostname Head(domains) on; st holds
\* cache, disableIPv6, the hostnames callDNS was called for and the calls
\* of testHttpConn made so far
RECURSIVE Probing(_, _, _, _, _)
Probing(domains, count, st, answers, reach) ==
  IF domains = << >> THEN st
  ELSE
    LET domain == Head(domains)
        hit == UseCache(st.cache[domain], count)
        records == IF hit THEN st.cache[domain] ELSE answers[domain]
        st1 == [st EXCEPT
                  !.resolved = IF hit THEN @ ELSE @ \cup {domain}]
        tried == Tried(domain, records, reach)
        st2 == [st1 EXCEPT
                  !.cache[domain] =
                     IF ExtractAAAA(records) # << >> THEN records ELSE @,
                  !.probes = @ \o tried,
                  !.disableIPv6 =
                     ~ (tried # << >> /\ ~ tried[Len(tried)].err)]
    IN  IF records.isNil
        THEN Probing(Tail(domains), count, st1, answers, reach)
        ELSE IF ~ st2.disableIPv6 THEN st2
        ELSE Probing(Tail(domains), count, st2, answers, reach)

PollInit ==
  /\ DispInit
  /\ FastOff
  /\ CallOff
  /\ pState = "called"
  /\ pTestIPv6 \in TestLists
  /\ pDisableIPv6 \in BOOLEAN
  /\ pCount = 0
  /\ pCache = [d \in Domains |-> NilMsg]
  /\ pSleepTime = 0
  /\ pLog = << >>

\* the test of the probe list; count, cache and sleepTime are set up
PollStart ==
  /\ pState = "called"
  /\ pState' = IF Len(pTestIPv6) = 0 THEN "returned" ELSE "cycle"
  /\ UNCHANGED << dispVars, fastVars, callVars, pTestIPv6, pDisableIPv6,
                  pCount, pCache, pSleepTime, pLog >>

\* one pass of the for loop up to time.Sleep
PollCycle(answers, reach) ==
  /\ pState = "cycle"
  /\ LET oldDisableIPv6 == pDisableIPv6
         st == Probing(pTestIPv6, pCount,
                       [cache |-> pCache, resolved |-> {},
                        probes |-> << >>, disableIPv6 |-> TRUE],
                       answers, reach)
     IN  /\ pCache' = st.cache
         /\ pDisableIPv6' = IF st.disableIPv6 # oldDisableIPv6
                            THEN st.disableIPv6
                            ELSE pDisableIPv6
         /\ pLog' = << [oldDisableIPv6 |-> oldDisableIPv6,
                        count |-> pCount,
                        cached |-> {d \in Domains : ~ pCache[d].isNil},
                        resolved |-> st.resolved,
                        probes |-> st.probes,
                        wrote |-> st.disableIPv6 # oldDisableIPv6] >>
  /\ pCount' = (pCount + 1) % resolveEvery
  /\ pSleepTime' = IF pSleepTime <= sleepCeiling
                   THEN pSleepTime + sleepStep
                   ELSE pSleepTime
  /\ pState' = "sleep"
  /\ UNCHANGED << dispVars, fastVars, callVars, pTestIPv6 >>

\* time.Sleep(sleepTime) is over
PollSleep ==
  /\ pState = "sleep"
  /\ pState' = "cycle"
  /\ UNCHANGED << dispVars, fastVars, callVars, pTestIPv6, pDisableIPv6,
                  pCount, pCache, pSleepTime, pLog >>

PollNext ==
  \/ PollStart
  \/ \E answers \in [Domains -> PollAnswers], reach \in Reaches :
       PollCycle(answers, reach)
  \/ PollSleep

PollSpec == PollInit /\ [][PollNext]_vars

(***************************************************************************)
(* The requests alone: no entry expires, no Refresh, no poller.            *)
(***************************************************************************)
FlightNext == \E p \in Procs : Serve(p)

FlightSpec == Init /\ [][FlightNext]_vars

(***************************************************************************)
(* What a request did, read from its history.                              *)
(***************************************************************************)
KeyOf(p) == getCacheKey(request[p])
Events(p, op) == SelectSeq(trace[p], LAMBDA e : e.op = op)
Calls(p) == Events(p, "call")
Replied(p) == pc[p] = "close"
\* between reqCond.ready = false and the deferred reqCond.ready = true
InSlot(p) == pc[p] \in {"recheck", "call"}
\* every CallDNS of the request returned an answer, and the answer was cached
AnswersCached(p) ==
  /\ \A i \in DOMAIN Calls(p) : ~ Calls(p)[i].m.isNil
  /\ Calls(p) # << >> => Events(p, "set") # << >>

(***************************************************************************)
(* C1: of the concurrent requests for one fingerprint, started on an empty *)
(* cache and an empty condMap, with no entry expiring and every upstream   *)
(* answer non-nil and cached, exactly one performs Group.CallDNS and all   *)
(* replies carry the same answer.  Stated for every two of them that have  *)
(* replied: not both called upstream, and their replies are equal.         *)
(***************************************************************************)
C1_SingleFlight ==
  \A p, q \in Procs :
    ( /\ p # q
      /\ Replied(p) /\ Replied(q)
      /\ KeyOf(p) = KeyOf(q)
      /\ AnswersCached(p) /\ AnswersCached(q) )
    => /\ Calls(p) = << >> \/ Calls(q) = << >>
       /\ reply[p] = reply[q]

(***************************************************************************)
(* C2: at most one request per fingerprint is inside the single-flight     *)
(* critical section, in every reachable state.                             *)
(***************************************************************************)
C2_OneInSlot ==
  \A p, q \in Procs :
    p # q /\ InSlot(p) /\ InSlot(q) => KeyOf(p) # KeyOf(q)

\* the message the deferred reply writes for a result m
Envelope(m) == IF m.isNil THEN EmptyMsg ELSE m

(***************************************************************************)
(* C3: a request that finds the entry of its fingerprint in the cache, at  *)
(* either lookup, is answered with a response equal to the cached one, and *)
(* calls no upstream group and writes no cache entry.                      *)
(***************************************************************************)
C3_CacheHit ==
  \A p \in Procs :
    Replied(p) =>
      \A i \in DOMAIN Events(p, "get") :
        ~ Events(p, "get")[i].m.isNil =>
          /\ reply[p] = Events(p, "get")[i].m
          /\ Calls(p) = << >>
          /\ Events(p, "set") = << >>

\* a resolution ended with a cache write, and a later request for the same
\* fingerprint was answered with what it wrote
C3_Witness ==
  \E p, q \in Procs :
    /\ p # q /\ Replied(p) /\ Replied(q) /\ KeyOf(p) = KeyOf(q)
    /\ Calls(q) # << >> /\ Events(q, "set") # << >>
    /\ ~ Events(q, "set")[1].m.isNil
    /\ Events(p, "get") # << >>
    /\ Events(p, "get")[1].m = Events(q, "set")[1].m
    /\ reply[p] = Events(q, "set")[1].m

(***************************************************************************)
(* C4: on the default path, when every A record of clean's answer lies in  *)
(* CNIP and every AAAA record in CNIPv6, dirty is not called and the reply *)
(* is clean's answer.                                                      *)
(***************************************************************************)
InRange(m, h) ==
  /\ \A i \in DOMAIN ExtractA(m) : Contain(h.CNIP, ExtractA(m)[i].ip)
  /\ \A i \in DOMAIN ExtractAAAA(m) :
       Contain(h.CNIPv6, ExtractAAAA(m)[i].ip)

C4_RangeGating ==
  \A p \in Procs :
    ( /\ Replied(p)
      /\ Calls(p) # << >>
      /\ Matching(snap[p], request[p].Name) = {}
      /\ InRange(Calls(p)[1].m, snap[p]) )
    => /\ Len(Calls(p)) = 1
       /\ reply[p] = Envelope(Calls(p)[1].m)

(***************************************************************************)
(* C5: when the rule-matched group is dirty and all its callers return     *)
(* nil, ServeDNS calls clean, replies with clean's result and writes no    *)
(* cache entry; when the rule-matched group returns a non-nil result, that *)
(* result is written to the cache and is the reply.                        *)
(***************************************************************************)
C5_RulePass ==
  \A p \in Procs :
    ( /\ Replied(p)
      /\ Calls(p) # << >>
      /\ Calls(p)[1].g \in Matching(snap[p], request[p].Name) )
    => LET c == Calls(p)
       IN  /\ ( GroupObjs[c[1].g].Name = "dirty" /\ c[1].raw.isNil ) =>
                /\ Len(c) = 2
                /\ c[2].g = GroupOf(snap[p], "clean")
                /\ reply[p] = Envelope(c[2].m)
                /\ Events(p, "set") = << >>
           /\ ~ c[1].m.isNil =>
                /\ Len(c) = 1
                /\ Events(p, "set") = << Ev("set", "nil", c[1].m) >>
                /\ reply[p] = c[1].m

\* both cases of C5 have happened
C5_Witness ==
  \E p, q \in Procs :
    /\ Replied(p) /\ Replied(q)
    /\ Len(Calls(p)) = 2
    /\ GroupObjs[Calls(p)[1].g].Name = "dirty" /\ Calls(p)[1].raw.isNil
    /\ ~ Calls(p)[2].m.isNil /\ reply[p] = Calls(p)[2].m
    /\ Len(Calls(q)) = 1
    /\ GroupObjs[Calls(q)[1].g].Name = "work"
    /\ ~ Calls(q)[1].m.isNil
    /\ cache[handler.Cache][KeyOf(q)] = Calls(q)[1].m

(***************************************************************************)
(* C6: a request that misses hosts and cache and whose name matches the    *)
(* matcher of the drop group gets a reply with zero answers; no group is   *)
(* called, no cache entry is written and nothing is added to an IPSet,     *)
(* also when the name matches the rules of another group.                  *)
(***************************************************************************)
MissedTwice(p) ==
  /\ Len(Events(p, "get")) = 2
  /\ \A i \in 1..2 : Events(p, "get")[i].m.isNil

C6_DropRule ==
  \A p \in Procs :
    ( /\ Replied(p)
      /\ MissedTwice(p)
      /\ GroupOf(snap[p], "drop") # "nil"
      /\ Match(GroupOf(snap[p], "drop"), request[p].Name) )
    => /\ reply[p] = EmptyMsg
       /\ Calls(p) = << >>
       /\ Events(p, "set") = << >>
       /\ Events(p, "ipset") = << >>

\* a dropped request whose name another group matches too
C6_Witness ==
  \E p \in Procs :
    /\ Replied(p) /\ MissedTwice(p)
    /\ GroupOf(snap[p], "drop") # "nil"
    /\ Match(GroupOf(snap[p], "drop"), request[p].Name)
    /\ Match(GroupOf(snap[p], "work"), request[p].Name)
    /\ Events(p, "drop") # << >>
    /\ reply[p] = EmptyMsg

(***************************************************************************)
(* C7: fastestA.  With C the addresses of the A records of all items: if   *)
(* some address of C has an RTT below maxRtt (so a non-nil item was seen), *)
(* the result holds exactly one A record, its address is in C, is below    *)
(* maxRtt and no address of C has a lower RTT; if no address of C is below *)
(* maxRtt, the result is the last non-nil item with its answers unchanged  *)
(* (nil when there is none); the result is nil only if every item was nil. *)
(***************************************************************************)
SeenIPs ==
  { ip \in FastIPs :
      \E i \in DOMAIN fCh : ~ fCh[i].isNil /\
        \E j \in DOMAIN fCh[i].Answer :
          fCh[i].Answer[j].t = "A" /\ fCh[i].Answer[j].ip = ip }

Reachable == { ip \in SeenIPs : fRtt[ip] < maxRtt }

C7_FastestA ==
  fState = "returned" =>
    /\ Reachable # {} =>
         /\ Len(ExtractA(fRes)) = 1
         /\ ExtractA(fRes)[1].ip \in Reachable
         /\ \A ip \in SeenIPs : fRtt[ExtractA(fRes)[1].ip] <= fRtt[ip]
    /\ Reachable = {} =>
         \/ /\ \A i \in DOMAIN fCh : fCh[i].isNil
            /\ fRes = NilMsg
         \/ \E i \in DOMAIN fCh :
              /\ ~ fCh[i].isNil
              /\ \A j \in DOMAIN fCh : j > i => fCh[j].isNil
              /\ fRes = fCh[i]
    /\ fRes.isNil => \A i \in DOMAIN fCh : fCh[i].isNil

\* three candidates over two items, two of them below maxRtt with different
\* RTTs, and the result holds the faster one alone
C7_Witness ==
  /\ fState = "returned"
  /\ SeenIPs = FastIPs
  /\ \E a, b \in Reachable : fRtt[a] < fRtt[b]
  /\ \E ip \in FastIPs : fRtt[ip] > maxRtt
  /\ Len(ExtractA(fRes)) = 1
  /\ \A ip \in SeenIPs : fRtt[ExtractA(fRes)[1].ip] <= fRtt[ip]

(***************************************************************************)
(* IPv6 suppression.                                                       *)
(***************************************************************************)
AllAAAAZero(m) ==
  \A i \in DOMAIN ExtractAAAA(m) : ExtractAAAA(m)[i].ip = ZeroV6

\* m is raw with every AAAA answer replaced by the empty AAAA record: the
\* count and the order of the answers and the A records are those of raw
Suppressed(raw, m) ==
  /\ m.isNil = raw.isNil
  /\ Len(m.Answer) = Len(raw.Answer)
  /\ \A i \in DOMAIN raw.Answer :
       IF raw.Answer[i].t = "AAAA" THEN m.Answer[i] = RR("AAAA", ZeroV6)
       ELSE m.Answer[i] = raw.Answer[i]

\* the CallDNS whose result the request returns with: the first one on the
\* default path when dirty answered nil, the last one otherwise
Answering(p) ==
  LET c == Calls(p)
  IN  IF /\ Len(c) = 2
         /\ c[2].m.isNil
         /\ Matching(snap[p], request[p].Name) = {}
      THEN 1
      ELSE Len(c)

(***************************************************************************)
(* C8, as stated: whenever the DisableIPv6 flag of a group is true, every  *)
(* AAAA answer of a reply that ServeDNS writes for a query answered        *)
(* through that group is ::, whatever flag changes the poller made before. *)
(* Stated on the step that writes the reply.                               *)
(***************************************************************************)
C8_FlagAtReply ==
  [][ \A p \in Procs :
        ( /\ pc[p] = "reply" /\ pc'[p] = "close"
          /\ Calls(p) # << >>
          /\ ~ Calls(p)[Answering(p)].m.isNil
          /\ groupDisableIPv6[Calls(p)[Answering(p)].g] )
        => AllAAAAZero(reply'[p]) ]_vars

(***************************************************************************)
(* C8, amended: whenever the DisableIPv6 flag of a group is true when      *)
(* Group.CallDNS reads it, after the group's callers have returned, every  *)
(* AAAA answer of the result of that CallDNS is ::, and the count and      *)
(* order of its answers and its A records are those the callers gave; the  *)
(* same holds of the reply written from that result.                       *)
(***************************************************************************)
C8_FlagAtCallDNS ==
  \A p \in Procs :
    Replied(p) /\ Calls(p) # << >> =>
      /\ \A i \in DOMAIN Calls(p) :
           Calls(p)[i].flag =>
             /\ AllAAAAZero(Calls(p)[i].m)
             /\ Suppressed(Calls(p)[i].raw, Calls(p)[i].m)
      /\ LET e == Calls(p)[Answering(p)]
         IN  /\ reply[p] = Envelope(e.m)
             /\ e.flag =>
                  /\ AllAAAAZero(reply[p])
                  /\ ExtractA(reply[p]) = ExtractA(e.raw)
                  /\ Len(reply[p].Answer) = Len(e.raw.Answer)

\* a reply written from an answer with an A and an AAAA record, got under a
\* true flag
C8_Witness ==
  \E p \in Procs :
    /\ Replied(p) /\ Calls(p) # << >>
    /\ Calls(p)[Answering(p)].flag
    /\ ExtractAAAA(Calls(p)[Answering(p)].raw) # << >>
    /\ ExtractAAAA(Calls(p)[Answering(p)].raw)[1].ip = CN6
    /\ ExtractA(reply[p]) # << >>
    /\ ExtractAAAA(reply[p]) = << RR("AAAA", ZeroV6) >>

(***************************************************************************)
(* C9: on every valid snapshot ServeDNS never terminates abnormally.       *)
(***************************************************************************)
C9_NeverAborts ==
  \A p \in Procs :
    IsValid(snap[p]) => ~ panicking[p] /\ pc[p] # "crashed"

(***************************************************************************)
(* The requests and Refresh under the scheduler's fairness: a goroutine    *)
(* inside ServeDNS that can take its next step takes it (every upstream    *)
(* call returns), and Mux.Lock() returns once no reader holds the lock.    *)
(* The expiry of entries and the poller, which touch neither Mux nor a     *)
(* field of the handler, are left out.                                     *)
(***************************************************************************)
InFlight(p) == pc[p] # "idle" /\ Serve(p)

LiveNext ==
  \/ \E p \in Procs : Serve(p)
  \/ RefreshBegin
  \/ \E target \in Targets : RefreshWrite(target)

LiveSpec ==
  /\ Init /\ [][LiveNext]_vars
  /\ \A p \in Procs : WF_vars(InFlight(p))
  /\ WF_vars(\E target \in Targets : RefreshWrite(target))

(***************************************************************************)
(* C10: Refresh writes no Handler field while a ServeDNS request is        *)
(* between Mux.RLock() and Mux.RUnlock(): every request in flight works on *)
(* the fields it met when it took the read lock, a step that changes the   *)
(* handler is taken with no request in flight, a request that starts after *)
(* Refresh has returned meets the replaced fields, and a Refresh that has   *)
(* called Mux.Lock() completes.                                            *)
(***************************************************************************)
C10_RefreshExclusion ==
  /\ [](\A p \in muxReaders : snap[p] = handler)
  /\ [][handler' # handler => muxReaders = {} /\ muxReaders' = {}]_vars
  /\ [][\A p \in Procs :
          p \in muxReaders' \ muxReaders =>
            muxWriter = "none" /\ snap'[p] = handler]_vars
  /\ (muxWriter = "pending") ~> (muxWriter = "none")

\* a Refresh has replaced the fields, a request started after it works on
\* the replaced fields, and the next Refresh waits in Mux.Lock() for it
C10_Witness ==
  \E q \in muxReaders :
    /\ muxWriter = "pending"
    /\ handler # Handler0
    /\ snap[q] = handler

(***************************************************************************)
(* C11: a request that acquired the single-flight slot has released it     *)
(* (ready = true, Signal, L.Unlock) before its reply is written, on every  *)
(* exit path: while the reply is pending and after it the request holds no *)
(* slot mutex, and in its history the release comes before the reply.      *)
(***************************************************************************)
Position(p, op) == CHOOSE i \in DOMAIN trace[p] : trace[p][i].op = op

C11_ReleasedBeforeReply ==
  \A p \in Procs :
    /\ pc[p] \in {"reply", "close"} => \A c \in Procs : condLocked[c] # p
    /\ Replied(p) /\ Events(p, "acquire") # << >> =>
         /\ Len(Events(p, "release")) = 1
         /\ Len(Events(p, "reply")) = 1
         /\ Position(p, "acquire") < Position(p, "release")
         /\ Position(p, "release") < Position(p, "reply")

\* two requests have replied after holding the slot, one that was dropped
\* or hit the cache at the re-check, one that called a group
C11_Witness ==
  \E p, q \in Procs :
    /\ Replied(p) /\ Replied(q)
    /\ Events(p, "acquire") # << >> /\ Events(q, "acquire") # << >>
    /\ Calls(p) = << >>
    /\ Calls(q) # << >>

(***************************************************************************)
(* C12: after Refresh(target) every optional field of the handler (Cache,  *)
(* GFWMatcher, CNIP, CNIPv6, HostsReaders, Groups, QueryLogger,            *)
(* DisableQTypes) equals target's field when that is non-empty and is      *)
(* unchanged otherwise, and Listen is unchanged.  Stated on the step in    *)
(* which Refresh writes and returns.                                       *)
(***************************************************************************)
Replaced(old, new, empty) == IF new # empty THEN new ELSE old

EveryFieldReplaced(h, target, after) ==
  /\ after.Listen = h.Listen
  /\ after.Cache = Replaced(h.Cache, target.Cache, 0)
  /\ after.GFWMatcher = Replaced(h.GFWMatcher, target.GFWMatcher, "nil")
  /\ after.CNIP = Replaced(h.CNIP, target.CNIP, "nil")
  /\ after.CNIPv6 = Replaced(h.CNIPv6, target.CNIPv6, "nil")
  /\ after.HostsReaders = Replaced(h.HostsReaders, target.HostsReaders, "nil")
  /\ after.Groups = Replaced(h.Groups, target.Groups, "nil")
  /\ after.QueryLogger = Replaced(h.QueryLogger, target.QueryLogger, "nil")
  /\ after.DisableQTypes = Replaced(h.DisableQTypes, target.DisableQTypes, {})

C12_RefreshFields ==
  [][ muxWriter = "pending" /\ muxWriter' = "none" =>
        \E target \in Targets : EveryFieldReplaced(handler, target, handler') ]_vars

(***************************************************************************)
(* C13: on the default path, when clean's answer was not all in range and  *)
(* dirty was called: if dirty returns a non-nil rr, the reply is rr and rr *)
(* is written to the cache; if dirty returns nil, the reply is clean's     *)
(* response and the request writes nothing to the cache.                   *)
(***************************************************************************)
DefaultPathDirty(p) ==
  /\ Replied(p)
  /\ Matching(snap[p], request[p].Name) = {}
  /\ Len(Calls(p)) = 2
  /\ Calls(p)[1].g = GroupOf(snap[p], "clean")
  /\ Calls(p)[2].g = GroupOf(snap[p], "dirty")

C13_DefaultDirty ==
  \A p \in Procs :
    DefaultPathDirty(p) =>
      LET clean == Calls(p)[1].m
          rr == Calls(p)[2].m
      IN  /\ ~ allInRange(clean, snap[p].CNIP)
          /\ ~ rr.isNil =>
               /\ reply[p] = rr
               /\ Events(p, "set") = << Ev("set", "nil", rr) >>
          /\ rr.isNil =>
               /\ reply[p] = Envelope(clean)
               /\ Events(p, "set") = << >>

\* both cases of C13 have happened, with different answers of clean and dirty
C13_Witness ==
  \E p, q \in Procs :
    /\ DefaultPathDirty(p) /\ DefaultPathDirty(q)
    /\ ~ Calls(p)[2].m.isNil
    /\ Calls(p)[2].m # Calls(p)[1].m
    /\ reply[p] = Calls(p)[2].m
    /\ cache[handler.Cache][KeyOf(p)] = Calls(p)[2].m
    /\ Calls(q)[2].m.isNil
    /\ reply[q] = Calls(q)[1].m

(***************************************************************************)
(* C14, as stated: whenever the group ServeDNS calls first returns nil     *)
(* because all of its callers failed, ServeDNS calls another group before  *)
(* it replies.                                                             *)
(***************************************************************************)
C14_FallbackAfterNil ==
  \A p \in Procs :
    ( /\ Replied(p)
      /\ Calls(p) # << >>
      /\ GroupObjs[Calls(p)[1].g].Callers > 0
      /\ Calls(p)[1].raw.isNil )
    => Len(Calls(p)) >= 2

(***************************************************************************)
(* C20, as stated: the IPSet side effect happens after the reply has been  *)
(* written, adds the addresses of the A records of the written reply, and  *)
(* goes to the IPSet of the group whose callers produced that reply;       *)
(* nothing is added on the type-filter, hosts, cache-hit and drop exits.   *)
(***************************************************************************)
C20_IPSetOfAnswerer ==
  \A p \in Procs :
    Replied(p) =>
      \A i \in DOMAIN trace[p] :
        trace[p][i].op = "ipset" /\ trace[p][i].g # "nil" =>
          /\ Position(p, "reply") < i
          /\ trace[p][i].m = Msg(ExtractA(reply[p]))
          /\ Calls(p) # << >>
          /\ ExtractA(reply[p]) # << >> =>
               trace[p][i].g = GroupObjs[Calls(p)[Answering(p)].g].IPSet

(***************************************************************************)
(* C14, amended: when the first group called returns nil because all its   *)
(* callers failed, ServeDNS calls another group, clean, only if the first  *)
(* group was matched by its rules and is the one named dirty; after a nil  *)
(* answer of any other rule-matched group, and of clean on the default     *)
(* path, no other group is called and the reply is the empty envelope.     *)
(***************************************************************************)
FirstCallFailed(p) ==
  /\ Replied(p)
  /\ Calls(p) # << >>
  /\ GroupObjs[Calls(p)[1].g].Callers > 0
  /\ Calls(p)[1].raw.isNil

C14_FallbackOnlyFromDirty ==
  \A p \in Procs :
    FirstCallFailed(p) =>
      IF /\ Calls(p)[1].g \in Matching(snap[p], request[p].Name)
         /\ GroupObjs[Calls(p)[1].g].Name = "dirty"
      THEN /\ Len(Calls(p)) = 2
           /\ Calls(p)[2].g = GroupOf(snap[p], "clean")
      ELSE /\ Len(Calls(p)) = 1
           /\ reply[p] = EmptyMsg

\* a rule-matched group other than dirty has answered nil, and so has clean
\* on the default path
C14_Witness ==
  \E p, q \in Procs :
    /\ FirstCallFailed(p) /\ FirstCallFailed(q)
    /\ GroupObjs[Calls(p)[1].g].Name = "work"
    /\ Matching(snap[q], request[q].Name) = {}
    /\ reply[p] = EmptyMsg /\ reply[q] = EmptyMsg

(***************************************************************************)
(* C20, amended: the IPSet side effect happens after the reply has been    *)
(* written, adds the addresses of the A records of the written reply, and  *)
(* goes to the IPSet of the group the dispatcher selected: the             *)
(* rule-matched group, also when clean answered in its place, and on the   *)
(* default path the last group called, also when dirty answered nil and    *)
(* the reply is clean's.  Nothing is added when no group was selected.     *)
(***************************************************************************)
Selected(p) ==
  IF Matching(snap[p], request[p].Name) # {} THEN Calls(p)[1].g
  ELSE Calls(p)[Len(Calls(p))].g

C20_IPSetOfSelected ==
  \A p \in Procs :
    Replied(p) =>
      IF Calls(p) = << >> THEN Events(p, "ipset") = << >>
      ELSE /\ Len(Events(p, "ipset")) = 1
           /\ Position(p, "reply") < Position(p, "ipset")
           /\ LET e == Events(p, "ipset")[1]
                  set == GroupObjs[Selected(p)].IPSet
              IN  IF set = "nil" THEN e.g = "nil" /\ e.m = EmptyMsg
                  ELSE e.g = set /\ e.m = Msg(ExtractA(reply[p]))

\* the addresses of clean's answer with an A and an AAAA record have gone
\* to the IPSet of the rule-matched dirty group
C20_Witness ==
  \E p \in Procs :
    /\ Replied(p) /\ Len(Calls(p)) = 2
    /\ Calls(p)[1].g \in Matching(snap[p], request[p].Name)
    /\ GroupObjs[Calls(p)[1].g].IPSet = "gfwset"
    /\ ExtractAAAA(reply[p]) # << >>
    /\ Events(p, "ipset") = << Ev("ipset", "gfwset", Msg(ExtractA(reply[p]))) >>
    /\ ExtractA(reply[p]) # << >>

\* the group of the step-level callDNS is sequential, and callDNS got past
\* its first test
Sequential == ~ cGroup.Concurrent /\ ~ cGroup.FastestV4
Asked == cGroup.Callers > 0 /\ cRequest # "nil"

\* C15: a sequential group (Concurrent and FastestV4 both false) invokes its
\* callers strictly in list order, invokes none after the first non-nil
\* result, returns that result, and returns nil exactly when every caller
\* returned nil; with no caller or a nil request it returns nil and invokes
\* no caller.
C15_Sequential ==
  (cState # "off" /\ Sequential) =>
    /\ cInvoked = [i \in 1..Len(cInvoked) |-> i]
    /\ \A i \in 1..(Len(cInvoked) - 1) : cOut[i].isNil
    /\ ~ Asked => cInvoked = << >>
    /\ cState = "returned" =>
         IF ~ Asked THEN cRes = NilMsg
         ELSE /\ cRes = cOut[Len(cInvoked)]
              /\ cRes.isNil <=> \A i \in 1..cGroup.Callers : cOut[i].isNil
              /\ cRes.isNil => Len(cInvoked) = cGroup.Callers

\* a sequential call returned the answer of its first caller and never
\* invoked the second one
C15_Witness ==
  /\ Sequential
  /\ cState = "returned"
  /\ cGroup.Callers = 2
  /\ ~ cRes.isNil
  /\ cInvoked = << 1 >>
  /\ cTask[2] = "none"

\* C16: a concurrent group returns the first non-nil item in the order the
\* items arrive on the channel, without receiving the rest, and returns nil
\* only after len(callers) nil items; a FastestV4 group, concurrent or not,
\* has received all len(callers) items when it returns.
C16_Concurrent ==
  (cState = "returned" /\ Asked) =>
    /\ (cGroup.Concurrent /\ ~ cGroup.FastestV4) =>
         /\ cGot # << >>
         /\ \A i \in 1..(Len(cGot) - 1) : cGot[i].isNil
         /\ cRes = cGot[Len(cGot)]
         /\ cRes.isNil => Len(cGot) = cGroup.Callers
    /\ cGroup.FastestV4 =>
         /\ Len(cGot) = cGroup.Callers
         /\ \E rtt \in CallRtts, order \in FastOrders :
              cRes = fastestA(cGot, cGroup.Callers, rtt, order)

\* a concurrent call returned the first answer while the task of the other
\* caller had not sent yet
C16_Witness ==
  /\ cGroup.Concurrent /\ ~ cGroup.FastestV4
  /\ cState = "returned"
  /\ ~ cRes.isNil
  /\ Len(cGot) = 1
  /\ \E i \in DOMAIN cTask : cTask[i] = "running"

\* the tasks that have been started, and those that have sent
Launched == {i \in DOMAIN cTask : cTask[i] # "none"}
Sent == {i \in DOMAIN cTask : cTask[i] = "sent"}

\* C19: every started task sends exactly one item, the channel holds
\* len(callers) items, and no task is ever blocked on its send: not after a
\* concurrent group returned early, and not in a sequential group, where
\* nothing reads the channel.
C19_NeverBlocks ==
  /\ \A i \in DOMAIN cTask : cTask[i] = "running" => ENABLED ChSend(i)
  /\ Len(ch) + Len(cGot) = Cardinality(Sent)
  /\ Len(ch) + Cardinality(Launched \ Sent) <= cGroup.Callers
  /\ Sequential => cGot = << >>

\* a concurrent call has returned early and the task of the other caller
\* has sent its item afterwards, to a channel nobody reads
C19_Witness ==
  /\ cGroup.Concurrent /\ ~ cGroup.FastestV4
  /\ cState = "returned"
  /\ cGroup.Callers = 2
  /\ Len(cGot) = 1
  /\ Len(ch) = 1
  /\ Sent = {1, 2}

\* C17: the interval the poller sleeps for starts at 0, grows by 5 s per
\* cycle and never exceeds the ceiling of 30 s.
C17_SleepCeiling ==
  /\ pSleepTime <= sleepCeiling
  /\ pSleepTime % sleepStep = 0

\* C18: at the end of every cycle the flag of the group is false exactly
\* when some HTTP probe of the cycle succeeded, the probed addresses being
\* AAAA addresses resolved or cached for their hostname, and true otherwise;
\* the flag is written only when the new value differs from the value read
\* at the start of the cycle; a hostname is resolved only when count is 0
\* or the hostname is not cached.
C18_PollCycle ==
  pLog # << >> =>
    LET l == pLog[1]
        succeeded == \E i \in DOMAIN l.probes : ~ l.probes[i].err
    IN  /\ pDisableIPv6 = ~ succeeded
        /\ l.wrote <=> pDisableIPv6 # l.oldDisableIPv6
        /\ ~ l.wrote => pDisableIPv6 = l.oldDisableIPv6
        /\ \A d \in l.resolved : l.count = 0 \/ d \notin l.cached
        /\ \A i \in DOMAIN l.probes :
             \E j \in DOMAIN pCache[l.probes[i].domain].Answer :
               pCache[l.probes[i].domain].Answer[j] =
                 RR("AAAA", l.probes[i].ip)

\* a cycle other than every tenth took its answers from the cache, a probe
\* succeeded after one had failed, and the flag went from true to false
C18_Witness ==
  /\ pLog # << >>
  /\ pLog[1].count # 0
  /\ pLog[1].resolved = {}
  /\ Len(pLog[1].probes) > 1
  /\ pLog[1].wrote
  /\ ~ pDisableIPv6

====
